---- MODULE Spec2Model ----
(***************************************************************************)
(* A model of package ulog (src/ulog/ulog.go): a logger that fans one log  *)
(* event out to a rotating file, the console and syslog, configured by a   *)
(* descriptor string, called from any number of goroutines.                *)
(*                                                                         *)
(* Text is a tuple of one-character strings.  An instant is a record       *)
(* [sec, frac, off, zone]: Unix seconds, the tick inside the second, the   *)
(* zone's offset from UTC in seconds and the zone's abbreviation.          *)
(***************************************************************************)
EXTENDS Integers, Sequences, FiniteSets, TLC

\* ------------------------------------------------------------------ bounds
\* Goroutines that call the logger.
NumProcs == 2
\* Calls (emit, Load, Close, SetLevel) started in one run.
MaxCalls == 2
\* Calls started in one sequential run.
MaxSeqCalls == 3
\* Calls started after New in one run of emits and reloads.
MaxLoadCalls == 2
\* Clock ticks that pass in one run.
MaxTicks == 2

\* ------------------------------------------------------- program constants
TIME_NONE == 0
TIME_DATE == 1
TIME_TIMESTAMP == 2

LOG_ERR == 3
LOG_WARNING == 4
LOG_INFO == 6
LOG_DEBUG == 7

LOG_USER == 8
LOG_DAEMON == 24
LOG_LOCAL0 == 128

\* The zero value of syslog.Priority, which a failed map lookup yields.
PriorityZero == 0

\* A nil *os.File or *syslog.Writer.
Nil == 0

\* ---------------------------------------------------------------- the clock
\* The clock's resolution: ticks in one second (a tick is half a second).
TicksPerSecond == 2
\* The wall clock when the run starts: the last tick of 2024-03-05 23:59:59 UTC.
StartSec == 1709683199
\* The local zone of the process: its offset in seconds and its abbreviation.
LocalOffset == 60 * 60
LocalZone == <<"C", "E", "T">>

\* time.Unix(0, 0)
Unix00 == [sec |-> 0, frac |-> 0, off |-> LocalOffset, zone |-> LocalZone]

\* t.UTC() and t.Local(): the same instant in another zone.
UTC(t) == [t EXCEPT !.off = 0, !.zone = <<"U", "T", "C">>]
Local(t) == [t EXCEPT !.off = LocalOffset, !.zone = LocalZone]

\* a.Sub(b) >= time.Second
SubAtLeastSecond(a, b) ==
    \/ a.sec - b.sec > 1
    \/ a.sec - b.sec = 1 /\ a.frac >= b.frac

\* The instant one tick after t.
TickAfter(t) ==
    IF t.frac + 1 < TicksPerSecond
    THEN [t EXCEPT !.frac = t.frac + 1]
    ELSE [t EXCEPT !.sec = t.sec + 1, !.frac = 0]

\* ------------------------------------------------- package time's calendar
AbsSec(t) == t.sec + t.off
DaysSinceEpoch(t) == AbsSec(t) \div 86400
SecOfDay(t) == AbsSec(t) % 86400

Hour(t) == SecOfDay(t) \div 3600
Minute(t) == (SecOfDay(t) % 3600) \div 60
SecondOf(t) == SecOfDay(t) % 60
\* Sunday = 0
Weekday(t) == (DaysSinceEpoch(t) + 4) % 7

\* The civil date of a day count (days since 1970-01-01).
Civil(days) ==
    LET z == days + 719468
        era == z \div 146097
        doe == z - era * 146097
        yoe == (doe - doe \div 1460 + doe \div 36524 - doe \div 146096) \div 365
        doy == doe - (365 * yoe + yoe \div 4 - yoe \div 100)
        mp == (5 * doy + 2) \div 153
        d == doy - (153 * mp + 2) \div 5 + 1
        m == IF mp < 10 THEN mp + 3 ELSE mp - 9
        y == yoe + era * 400 + (IF m <= 2 THEN 1 ELSE 0)
    IN  [year |-> y, month |-> m, day |-> d]

Year(t) == Civil(DaysSinceEpoch(t)).year
Month(t) == Civil(DaysSinceEpoch(t)).month
Day(t) == Civil(DaysSinceEpoch(t)).day

YearDay(t) ==
    LET leap == Year(t) % 4 = 0 /\ (Year(t) % 100 # 0 \/ Year(t) % 400 = 0)
    IN  <<0, 31, 59, 90, 120, 151, 181, 212, 243, 273, 304, 334>>[Month(t)]
            + (IF Month(t) > 2 /\ leap THEN 1 ELSE 0) + Day(t)

\* t.ISOWeek(): the ISO 8601 year and week number.
WeeksInYear(y) ==
    LET p(x) == (x + x \div 4 - x \div 100 + x \div 400) % 7
    IN  IF p(y) = 4 \/ p(y - 1) = 3 THEN 53 ELSE 52
ISOWeek(t) ==
    LET wd == IF Weekday(t) = 0 THEN 7 ELSE Weekday(t)
        w == (YearDay(t) - wd + 10) \div 7
        y == Year(t)
    IN  IF w < 1 THEN [year |-> y - 1, week |-> WeeksInYear(y - 1)]
        ELSE IF w > WeeksInYear(y) THEN [year |-> y + 1, week |-> 1]
        ELSE [year |-> y, week |-> w]

longDayNames ==
    << <<"S", "u", "n", "d", "a", "y">>,
       <<"M", "o", "n", "d", "a", "y">>,
       <<"T", "u", "e", "s", "d", "a", "y">>,
       <<"W", "e", "d", "n", "e", "s", "d", "a", "y">>,
       <<"T", "h", "u", "r", "s", "d", "a", "y">>,
       <<"F", "r", "i", "d", "a", "y">>,
       <<"S", "a", "t", "u", "r", "d", "a", "y">> >>
longMonthNames ==
    << <<"J", "a", "n", "u", "a", "r", "y">>,
       <<"F", "e", "b", "r", "u", "a", "r", "y">>,
       <<"M", "a", "r", "c", "h">>,
       <<"A", "p", "r", "i", "l">>,
       <<"M", "a", "y">>,
       <<"J", "u", "n", "e">>,
       <<"J", "u", "l", "y">>,
       <<"A", "u", "g", "u", "s", "t">>,
       <<"S", "e", "p", "t", "e", "m", "b", "e", "r">>,
       <<"O", "c", "t", "o", "b", "e", "r">>,
       <<"N", "o", "v", "e", "m", "b", "e", "r">>,
       <<"D", "e", "c", "e", "m", "b", "e", "r">> >>
DayName(t) == longDayNames[Weekday(t) + 1]
MonthName(t) == longMonthNames[Month(t)]

\* ------------------------------------------------------ package fmt's verbs
DigitChar(d) == <<"0", "1", "2", "3", "4", "5", "6", "7", "8", "9">>[d + 1]

\* fmt.Sprintf("%d", n), n >= 0
RECURSIVE Decimal(_)
Decimal(n) ==
    IF n < 10 THEN <<DigitChar(n)>>
    ELSE Decimal(n \div 10) \o <<DigitChar(n % 10)>>

RECURSIVE Fill(_, _)
Fill(c, k) == IF k <= 0 THEN <<>> ELSE <<c>> \o Fill(c, k - 1)

\* fmt.Sprintf("%0wd", n) and fmt.Sprintf("%wd", n), n >= 0
Pad0(n, w) == Fill("0", w - Len(Decimal(n))) \o Decimal(n)
PadSp(n, w) == Fill(" ", w - Len(Decimal(n))) \o Decimal(n)

\* ---------------------------------------------------------------- strftime
HMS(t) == Pad0(Hour(t), 2) \o <<":">> \o Pad0(Minute(t), 2) \o <<":">> \o Pad0(SecondOf(t), 2)
MDY(t) == Pad0(Month(t), 2) \o <<"/">> \o Pad0(Day(t), 2) \o <<"/">> \o Pad0(Year(t) % 100, 2)

\* The text one verb character stands for; nothing for an unrecognized one.
Verb(c, base) ==
    CASE c = "a" -> SubSeq(DayName(base), 1, 3)
      [] c = "A" -> DayName(base)
      [] c = "b" -> SubSeq(MonthName(base), 1, 3)
      [] c = "B" -> MonthName(base)
      [] c = "c" -> SubSeq(DayName(base), 1, 3) \o <<" ">> \o SubSeq(MonthName(base), 1, 3)
                      \o <<" ">> \o Decimal(Day(base)) \o <<" ">> \o HMS(base)
                      \o <<" ">> \o Decimal(Year(base))
      [] c = "C" -> Pad0(Year(base) \div 100, 2)
      [] c = "d" -> Pad0(Day(base), 2)
      [] c = "D" -> MDY(base)
      [] c = "e" -> PadSp(Day(base), 2)
      [] c = "f" -> Pad0((base.frac * (1000000000 \div TicksPerSecond)) \div 1000, 6)
      [] c = "F" -> Pad0(Year(base), 4) \o <<"-">> \o Pad0(Month(base), 2)
                      \o <<"-">> \o Pad0(Day(base), 2)
      [] c = "g" -> Pad0(ISOWeek(base).year % 100, 2)
      [] c = "G" -> Pad0(ISOWeek(base).year, 4)
      [] c = "h" -> SubSeq(MonthName(base), 1, 3)
      [] c = "H" -> Pad0(Hour(base), 2)
      [] c = "I" -> IF Hour(base) = 0 \/ Hour(base) = 12
                    THEN <<"1", "2">> ELSE Pad0(Hour(base) % 12, 2)
      [] c = "j" -> Pad0(YearDay(base), 3)
      [] c = "k" -> PadSp(Hour(base), 2)
      [] c = "l" -> IF Hour(base) = 0 \/ Hour(base) = 12
                    THEN <<"1", "2">> ELSE PadSp(Hour(base) % 12, 2)
      [] c = "m" -> Pad0(Month(base), 2)
      [] c = "M" -> Pad0(Minute(base), 2)
      [] c = "n" -> <<"\n">>
      [] c = "p" -> IF Hour(base) < 12 THEN <<"A", "M">> ELSE <<"P", "M">>
      [] c = "P" -> IF Hour(base) < 12 THEN <<"a", "m">> ELSE <<"p", "m">>
      [] c = "r" -> Pad0(IF Hour(base) = 0 \/ Hour(base) = 12 THEN 12 ELSE Hour(base) % 12, 2)
                      \o <<":">> \o Pad0(Minute(base), 2) \o <<":">>
                      \o Pad0(SecondOf(base), 2)
                      \o (IF Hour(base) < 12 THEN <<" ", "A", "M">> ELSE <<" ", "P", "M">>)
      [] c = "R" -> Pad0(Hour(base), 2) \o <<":">> \o Pad0(Minute(base), 2)
      [] c = "s" -> Decimal(base.sec)
      [] c = "S" -> Pad0(SecondOf(base), 2)
      [] c = "t" -> <<"\t">>
      [] c = "T" -> HMS(base)
      [] c = "u" -> Decimal(IF Weekday(base) = 0 THEN 7 ELSE Weekday(base))
      [] c = "U" -> Decimal((YearDay(base) + 6 - Weekday(base)) \div 7)
      [] c = "V" -> Pad0(ISOWeek(base).week, 2)
      [] c = "w" -> Decimal(Weekday(base))
      [] c = "W" -> Decimal((YearDay(base) + 6
                        - (IF Weekday(base) = 0 THEN 6 ELSE Weekday(base) - 1)) \div 7)
      [] c = "x" -> MDY(base)
      [] c = "X" -> HMS(base)
      [] c = "y" -> Pad0(Year(base) % 100, 2)
      [] c = "Y" -> Pad0(Year(base), 4)
      [] c = "z" -> \* base.Format("-0700")
                    LET a == IF base.off < 0 THEN 0 - base.off ELSE base.off
                    IN  <<IF base.off < 0 THEN "-" ELSE "+">> \o Pad0(a \div 3600, 2)
                            \o Pad0((a % 3600) \div 60, 2)
      [] c = "Z" -> base.zone
      [] c = "%" -> <<"%">>
      [] OTHER -> <<>>

\* The loop of strftime from position index on.
RECURSIVE strftimeFrom(_, _, _)
strftimeFrom(layout, base, index) ==
    IF index > Len(layout) THEN <<>>
    ELSE IF layout[index] = "%"
    THEN IF index < Len(layout)
         THEN Verb(layout[index + 1], base) \o strftimeFrom(layout, base, index + 2)
         ELSE strftimeFrom(layout, base, index + 1)
    ELSE <<layout[index]>> \o strftimeFrom(layout, base, index + 1)

strftime(layout, base) == strftimeFrom(layout, base, 1)

\* ------------------------------------------------------------ the ULog type
\* The fields of ULog that Load parses from the descriptor (all but level).
ConfigFields ==
    {"file", "console", "syslog", "filePath", "fileTime", "fileSeverity",
     "consoleHandle", "consoleTime", "consoleSeverity", "consoleColors",
     "syslogRemote", "syslogName", "syslogFacility", "optionUTC"}

\* A ULog as New allocates it, before Load.
NewULog ==
    [file |-> FALSE, console |-> FALSE, syslog |-> FALSE,
     fileHandle |-> Nil, filePath |-> <<>>, filePreviousPath |-> <<>>,
     fileTime |-> TIME_NONE, fileSeverity |-> FALSE,
     consoleHandle |-> "", consoleTime |-> TIME_NONE,
     consoleSeverity |-> FALSE, consoleColors |-> FALSE,
     syslogHandle |-> Nil, syslogRemote |-> "", syslogName |-> "",
     syslogFacility |-> PriorityZero, optionUTC |-> FALSE,
     lastCheck |-> Unix00, level |-> PriorityZero]

facilities ==
    [user |-> LOG_USER, daemon |-> LOG_DAEMON, local0 |-> LOG_LOCAL0,
     local1 |-> LOG_LOCAL0 + 8, local2 |-> LOG_LOCAL0 + 16, local3 |-> LOG_LOCAL0 + 24,
     local4 |-> LOG_LOCAL0 + 32, local5 |-> LOG_LOCAL0 + 40, local6 |-> LOG_LOCAL0 + 48,
     local7 |-> LOG_LOCAL0 + 56]
severities ==
    [error |-> LOG_ERR, warning |-> LOG_WARNING, info |-> LOG_INFO, debug |-> LOG_DEBUG]

\* m[key] of a Go map of priorities: the zero value when the key is absent.
Lookup(m, key) == IF key \in DOMAIN m THEN m[key] ELSE PriorityZero

severityLabels ==
    (LOG_ERR :> <<"E", "R", "R", "O", " ">>) @@ (LOG_WARNING :> <<"W", "A", "R", "N", " ">>)
    @@ (LOG_INFO :> <<"I", "N", "F", "O", " ">>) @@ (LOG_DEBUG :> <<"D", "B", "U", "G", " ">>)

\* "ESC" stands for the byte \x1b.
severityColors ==
    (LOG_ERR :> <<"ESC", "[", "3", "1", "m">>) @@ (LOG_WARNING :> <<"ESC", "[", "3", "3", "m">>)
    @@ (LOG_INFO :> <<"ESC", "[", "3", "6", "m">>) @@ (LOG_DEBUG :> <<"ESC", "[", "3", "2", "m">>)

\* strings.ToLower, on the words the descriptors and level names are made of.
ToLower(s) ==
    CASE s = "PATH" -> "path"
      [] s = "Time" -> "time"
      [] s = "TRUE" -> "true"
      [] s = "Yes" -> "yes"
      [] s = "ON" -> "on"
      [] s = "Stamp" -> "stamp"
      [] s = "STDOUT" -> "stdout"
      [] s = "Daemon" -> "daemon"
      [] s = "ERROR" -> "error"
      [] s = "Warning" -> "warning"
      [] s = "INFO" -> "info"
      [] s = "Debug" -> "debug"
      [] s = "BOGUS" -> "bogus"
      [] OTHER -> s

\* A boolean option's value that keeps the option on.
Truthy(v) == v = "1" \/ v = "true" \/ v = "on" \/ v = "yes"

\* regexp ":\d+$" on the remote addresses the descriptors use.
WithPort(remote) ==
    IF remote \in {"loghost:601", "10.0.0.1:514"} THEN remote
    ELSE IF remote = "loghost" THEN "loghost:514"
    ELSE IF remote = "10.0.0.1" THEN "10.0.0.1:514"
    ELSE remote

\* --------------------------------------------------------------------- Load
\* A descriptor is the sequence of its directives as the directive pattern
\* finds them: [name, options], options the sequence of <<key, value>> pairs
\* the option pattern finds in the parentheses.  The value of a path is text.

\* Lines 92-109: the assignments of the defaults, in the order of the code,
\* each <<field, value>>.  Line 101 compiles the same pattern again and is
\* left out.  The program is named "prog" (filepath.Base(os.Args[0])).  The
\* time.Time of line 108 is stored in two parts, as Store tells.
ResetWrites ==
    << <<"file", FALSE>>, <<"filePath", <<>> >>, <<"filePreviousPath", <<>> >>,
       <<"fileTime", TIME_DATE>>, <<"fileSeverity", TRUE>>,
       <<"console", FALSE>>, <<"consoleTime", TIME_DATE>>,
       <<"consoleSeverity", TRUE>>, <<"consoleColors", TRUE>>,
       <<"consoleHandle", "stderr">>,
       <<"syslog", FALSE>>, <<"syslogRemote", "">>, <<"syslogName", "prog">>,
       <<"syslogFacility", LOG_DAEMON>>, <<"optionUTC", FALSE>>,
       <<"lastCheck.wall", Unix00>>, <<"lastCheck.ext", Unix00>>,
       <<"level", LOG_INFO>> >>

\* The logger t after the store w, <<field, value>>.  A time.Time is three
\* words and its assignment (lines 108, 418) stores them one after the other:
\* wall, which holds the fraction of the second of a time without a
\* monotonic reading (time.Unix, and Time.UTC and Time.Local, which strip
\* it), then ext, which holds its seconds, and loc, its zone.  No code of
\* the logger reads the zone of lastCheck, and its store goes with that of
\* ext.
Store(t, w) ==
    IF w[1] = "lastCheck.wall" THEN [t EXCEPT !.lastCheck.frac = w[2].frac]
    ELSE IF w[1] = "lastCheck.ext"
    THEN [t EXCEPT !.lastCheck = [w[2] EXCEPT !.frac = t.lastCheck.frac]]
    ELSE [t EXCEPT ![w[1]] = w[2]]

\* Lines 92-109 from assignment i on: every parsed field back to its default.
\* Each store is made before the next one is looked at; one that stores the
\* value the field holds leaves t.
RECURSIVE ResetFrom(_, _)
ResetFrom(t, i) ==
    IF i > Len(ResetWrites) THEN t
    ELSE LET u == Store(t, ResetWrites[i])
         IN  IF u = t THEN ResetFrom(t, i + 1) ELSE ResetFrom(u, i + 1)

\* time=... of a file or console directive: the new time mode.
TimeMode(old, v) ==
    IF v = "stamp" \/ v = "timestamp" THEN TIME_TIMESTAMP
    ELSE IF ~Truthy(v) THEN TIME_NONE
    ELSE old

FileOption(t, option) ==
    LET key == ToLower(option[1]) IN
    CASE key = "path" -> [t EXCEPT !.filePath = option[2]]
      [] key = "time" -> [t EXCEPT !.fileTime = TimeMode(t.fileTime, ToLower(option[2]))]
      [] key = "severity" ->
            IF ~Truthy(ToLower(option[2])) THEN [t EXCEPT !.fileSeverity = FALSE] ELSE t
      [] OTHER -> t

\* The option loop of a console directive lowers every value first; a path
\* never appears there, so only words are lowered.
ConsoleOption(t, option) ==
    LET key == ToLower(option[1])
        v == ToLower(option[2])
    IN
    CASE key = "output" -> IF v = "stdout" THEN [t EXCEPT !.consoleHandle = "stdout"] ELSE t
      [] key = "time" -> [t EXCEPT !.consoleTime = TimeMode(t.consoleTime, v)]
      [] key = "severity" -> IF ~Truthy(v) THEN [t EXCEPT !.consoleSeverity = FALSE] ELSE t
      [] key = "colors" -> IF ~Truthy(v) THEN [t EXCEPT !.consoleColors = FALSE] ELSE t
      [] OTHER -> t

SyslogOption(t, option) ==
    LET key == ToLower(option[1]) IN
    CASE key = "remote" -> [t EXCEPT !.syslogRemote = WithPort(option[2])]
      [] key = "name" -> [t EXCEPT !.syslogName = option[2]]
      [] key = "facility" ->
            [t EXCEPT !.syslogFacility = Lookup(facilities, ToLower(option[2]))]
      [] OTHER -> t

OptionOption(t, option) ==
    LET key == ToLower(option[1])
        v == ToLower(option[2])
    IN
    CASE key = "utc" -> IF Truthy(v) THEN [t EXCEPT !.optionUTC = TRUE] ELSE t
      [] key = "level" -> [t EXCEPT !.level = Lookup(severities, v)]
      [] OTHER -> t

\* The body of one option loop (lines 115-131, 139-160, 165-175, 179-187):
\* the switch of the directive named name, on one option.
Option(name, t, option) ==
    CASE name = "file" -> FileOption(t, option)
      [] name = "console" -> ConsoleOption(t, option)
      [] name = "syslog" -> SyslogOption(t, option)
      [] name = "option" -> OptionOption(t, option)
      [] OTHER -> t

\* One option loop, from position i on: each option is applied before the
\* next one is looked at; one that changes nothing leaves t.
RECURSIVE Options(_, _, _, _)
Options(name, t, options, i) ==
    IF i > Len(options) THEN t
    ELSE LET u == Option(name, t, options[i])
         IN  IF u = t THEN Options(name, t, options, i + 1)
             ELSE Options(name, u, options, i + 1)

\* Lines 113, 137 and 163: a file, console or syslog directive enables its
\* sink; an option directive enables nothing.
DirectiveOn(t, name) ==
    IF name \in {"file", "console", "syslog"} THEN [t EXCEPT ![name] = TRUE] ELSE t

\* The end of a directive without the test of lines 133-135.
DirectiveEndKeepsFileOn(t, name) == t

\* Lines 133-135: a file directive that leaves no path disables the sink.
DirectiveEnd(t, name) ==
    IF name = "file" /\ t.filePath = <<>> THEN [t EXCEPT !.file = FALSE] ELSE t

\* The body of the directive loop, lines 111-189.
Directive(t, target) ==
    DirectiveEnd(Options(target.name, DirectiveOn(t, target.name), target.options, 1),
                 target.name)

\* The directive loop, lines 110-190, from directive i on, each directive
\* applied before the next one is looked at.
RECURSIVE Directives(_, _, _)
Directives(t, target, i) ==
    IF i > Len(target) THEN t
    ELSE LET u == Directive(t, target[i])
         IN  IF u = t THEN Directives(t, target, i + 1) ELSE Directives(u, target, i + 1)

\* What Load leaves in the logger t for the descriptor target (lines 92-190).
LoadFields(t, target) == Directives(ResetFrom(t, 1), target, 1)

\* The configuration a logger holds: its parsed fields.
Config(t) == [f \in ConfigFields |-> t[f]]

\* ------------------------------------------------------- formatting a line
IsSpace(c) == c \in {" ", "\t", "\n", "\r"}

\* strings.TrimSpace
RECURSIVE TrimLeft(_)
TrimLeft(s) == IF s # <<>> /\ IsSpace(Head(s)) THEN TrimLeft(Tail(s)) ELSE s
RECURSIVE TrimRight(_)
TrimRight(s) ==
    IF s # <<>> /\ IsSpace(s[Len(s)]) THEN TrimRight(SubSeq(s, 1, Len(s) - 1)) ELSE s
TrimSpace(s) == TrimRight(TrimLeft(s))

\* fmt.Sprintf(format, a...) for formats whose verbs are %s and %% and text
\* operands, no more operands than verbs: from position i, operand k on.
RECURSIVE SprintfFrom(_, _, _, _)
SprintfFrom(format, a, i, k) ==
    IF i > Len(format) THEN <<>>
    ELSE IF format[i] = "%" /\ i < Len(format) /\ format[i + 1] = "s"
    THEN (IF k <= Len(a) THEN a[k]
          ELSE <<"%", "!", "s", "(", "M", "I", "S", "S", "I", "N", "G", ")">>)
             \o SprintfFrom(format, a, i + 2, k + 1)
    ELSE IF format[i] = "%" /\ i < Len(format) /\ format[i + 1] = "%"
    THEN <<"%">> \o SprintfFrom(format, a, i + 2, k)
    ELSE <<format[i]>> \o SprintfFrom(format, a, i + 1, k)
Sprintf(format, a) == SprintfFrom(format, a, 1, 1)

\* The time part of a prefix (lines 438-443 and 454-459): for TIME_DATE,
\* "%04d-%02d-%02d %02d:%02d:%02d " of the instant now.
TimePrefix(mode, now) ==
    IF mode = TIME_DATE
    THEN Pad0(Year(now), 4) \o <<"-">> \o Pad0(Month(now), 2) \o <<"-">>
             \o Pad0(Day(now), 2) \o <<" ">> \o HMS(now) \o <<" ">>
    ELSE IF mode = TIME_TIMESTAMP THEN Decimal(now.sec) \o <<" ">>
    ELSE <<>>

Reset == <<"ESC", "[", "0", "m">>
\* Lines 461-465: the label of a console line, in its color or bare.
ConsoleLabel(t, severity) ==
    IF t.consoleColors
    THEN Lookup(severityColors, severity) \o Lookup(severityLabels, severity) \o Reset
    ELSE Lookup(severityLabels, severity)

\* The first position >= i of s that holds c, Len(s) + 1 when there is none.
RECURSIVE IndexFrom(_, _, _)
IndexFrom(s, c, i) ==
    IF i > Len(s) \/ s[i] = c THEN i ELSE IndexFrom(s, c, i + 1)
\* The first position >= i of s that holds no white space.
RECURSIVE SkipSpace(_, _)
SkipSpace(s, i) == IF i <= Len(s) /\ IsSpace(s[i]) THEN SkipSpace(s, i + 1) ELSE i

\* consoleColorizer.ReplaceAllString(s, "\"\x1b[37m$1\x1b[0m\":"): every
\* "key" followed by a colon has its key wrapped, from position i on.
RECURSIVE ColorizeFrom(_, _)
ColorizeFrom(s, i) ==
    IF i > Len(s) THEN <<>>
    ELSE LET j == IndexFrom(s, "\"", i + 1)
             k == SkipSpace(s, j + 1)
         IN  IF s[i] = "\"" /\ j > i + 1 /\ j <= Len(s) /\ k <= Len(s) /\ s[k] = ":"
             THEN <<"\"", "ESC", "[", "3", "7", "m">> \o SubSeq(s, i + 1, j - 1)
                      \o Reset \o <<"\"", ":">> \o ColorizeFrom(s, k + 1)
             ELSE <<s[i]>> \o ColorizeFrom(s, i + 1)
Colorize(s) == ColorizeFrom(s, 1)

\* Lines 368-382: the layout and the operands of a payload.  A payload is
\* [kind, layout, a]; the layout of a map is the text json.Encoder writes.
NormalLayout(xlayout) ==
    TrimSpace(IF xlayout.kind = "map" THEN <<"%", "s">> ELSE xlayout.layout)
NormalArgs(xlayout) ==
    IF xlayout.kind = "map" THEN <<TrimSpace(xlayout.layout)>> ELSE xlayout.a

\* The operands of a map highlighted whatever consoleColors says.
ConsoleArgsOfAnyMap(t, xlayout, a) ==
    IF xlayout.kind = "map" THEN [i \in 1..Len(a) |-> Colorize(a[i])] ELSE a

\* Lines 467-471: the operands of the console line.
ConsoleArgs(t, xlayout, a) ==
    IF xlayout.kind = "map" /\ t.consoleColors
    THEN [i \in 1..Len(a) |-> Colorize(a[i])]
    ELSE a

\* ------------------------------------------------------------------- inputs
Procs == 1..NumProcs

\* file(path=x%Y%m%d) console() syslog() option(utc=1): a daily file.
TargetAll ==
    << [name |-> "file",
        options |-> << <<"path", <<"x", "%", "Y", "%", "m", "%", "d">> >> >>],
       [name |-> "console", options |-> <<>>],
       [name |-> "syslog", options |-> <<>>],
       [name |-> "option", options |-> << <<"utc", "1">> >>] >>
\* file(PATH=y, time=stamp) option(level=debug): one file, never rotated.
TargetFile ==
    << [name |-> "file", options |-> << <<"PATH", <<"y">> >>, <<"time", "stamp">> >>],
       [name |-> "option", options |-> << <<"level", "debug">> >>] >>
\* console(colors=0, severity=no)
TargetConsole ==
    << [name |-> "console", options |-> << <<"colors", "0">>, <<"severity", "no">> >>] >>
\* The empty descriptor.
TargetNone == <<>>

\* file(path=x%Y%m%d) console(colors=0) syslog(): every sink, no colors.
TargetPlain ==
    << [name |-> "file",
        options |-> << <<"path", <<"x", "%", "Y", "%", "m", "%", "d">> >> >>],
       [name |-> "console", options |-> << <<"colors", "0">> >>],
       [name |-> "syslog", options |-> <<>>] >>
\* console(colors=no, time=stamp) option(level=BOGUS): a level that is no level.
TargetBogus ==
    << [name |-> "console", options |-> << <<"colors", "no">>, <<"time", "stamp">> >>],
       [name |-> "option", options |-> << <<"level", "BOGUS">> >>] >>
\* console(severity=0, colors=0)
\* syslog(name=a, name=b, facility=user, facility=Daemon, remote=loghost, remote=loghost:601)
\* console(severity=1, colors=yes, output=STDOUT, output=stderr, time=0, time=1)
\* option(utc=1, utc=0, level=debug, level=error)
\* file(path=a, Time=stamp, time=yes, path=lit): every key more than once.
TargetRepeat ==
    << [name |-> "console", options |-> << <<"severity", "0">>, <<"colors", "0">> >>],
       [name |-> "syslog",
        options |-> << <<"name", "a">>, <<"name", "b">>, <<"facility", "user">>,
                       <<"facility", "Daemon">>, <<"remote", "loghost">>,
                       <<"remote", "loghost:601">> >>],
       [name |-> "console",
        options |-> << <<"severity", "1">>, <<"colors", "yes">>, <<"output", "STDOUT">>,
                       <<"output", "stderr">>, <<"time", "0">>, <<"time", "1">> >>],
       [name |-> "option",
        options |-> << <<"utc", "1">>, <<"utc", "0">>, <<"level", "debug">>,
                       <<"level", "error">> >>],
       [name |-> "file",
        options |-> << <<"path", <<"a">> >>, <<"Time", "stamp">>, <<"time", "yes">>,
                       <<"path", <<"l", "i", "t">> >> >>] >>
\* file(time=stamp) console(): a file directive that names no path.
TargetNoPath ==
    << [name |-> "file", options |-> << <<"time", "stamp">> >>],
       [name |-> "console", options |-> <<>>] >>
\* file(path=p%%q%qr): a doubled percent sign and a verb strftime does not know.
TargetVerbs ==
    << [name |-> "file",
        options |-> << <<"path", <<"p", "%", "%", "q", "%", "q", "r">> >> >>] >>
\* file(path=a%): a percent sign that ends the template.
TargetTrailing ==
    << [name |-> "file", options |-> << <<"path", <<"a", "%">> >> >>] >>

\* The descriptors of the runs of emits and reloads.
ParseTargets ==
    {TargetPlain, TargetBogus, TargetRepeat, TargetNoPath, TargetVerbs, TargetTrailing}

\* The descriptors Load is called with; New is called with TargetAll.
LoadTargets == {TargetConsole, TargetFile, TargetNone}

\* The severities of Error, Warn, Info and Debug (lines 478-489).
EmitSeverities == {LOG_ERR, LOG_WARNING, LOG_INFO, LOG_DEBUG}

\* Payloads: the template "up" with no operands, and the map {"k":1}.
PayloadString == [kind |-> "string", layout |-> <<"u", "p", " ">>, a |-> <<>>]
Payloads ==
    {PayloadString,
     [kind |-> "map", layout |-> <<"{", "\"", "k", "\"", ":", "1", "}", "\n">>, a |-> <<>>]}

\* The names SetLevel is called with.
LevelNames == {"error", "Warning", "info", "debug", "bogus"}

\* -------------------------------------------------------------------- state
VARIABLES
    this,       \* the ULog
    mutex,      \* the goroutine that holds the ULog's sync.Mutex, 0 when free
    pc,         \* where each goroutine is in its call
    frame,      \* each goroutine's arguments and local variables; err is the
                \* result of its last Dial or OpenFile, "nil" before any; i and
                \* j are the positions of Load in its assignments and loops,
                \* w the *syslog.Writer an emit has loaded to deliver through
    handles,    \* the files and syslog connections ever opened, by handle
    fs,         \* the lines appended to files, in order: [path, line]
    stdio,      \* the lines written to the console, in order: [stream, line]
    syslogd,    \* the messages delivered to syslog, in order
    clock,      \* the wall clock
    calls,      \* the calls started so far
    passed,     \* the emits that passed the filter so far
    installed   \* the configurations Load has installed so far

vars == <<this, mutex, pc, frame, handles, fs, stdio, syslogd, clock, calls, passed,
          installed>>

Free == 0

NoFrame ==
    [op |-> "", severity |-> PriorityZero, xlayout |-> <<>>, layout |-> <<>>, a |-> <<>>,
     now |-> Unix00, path |-> <<>>, prefix |-> <<>>, err |-> "nil", target |-> <<>>,
     level |-> "", obs |-> {}, i |-> 0, j |-> 0, w |-> Nil, u |-> Unix00]

\* New(target), lines 79-85, for each descriptor of targets.
\* The wall clock when the run starts, in the local zone.
StartClock ==
    [sec |-> StartSec, frac |-> TicksPerSecond - 1, off |-> LocalOffset, zone |-> LocalZone]

InitWith(targets) ==
    /\ \E target \in targets : this = LoadFields(NewULog, target)
    /\ mutex = Free
    /\ pc = [p \in Procs |-> "idle"]
    /\ frame = [p \in Procs |-> NoFrame]
    /\ handles = <<>>
    /\ fs = <<>>
    /\ stdio = <<>>
    /\ syslogd = <<>>
    /\ clock = StartClock
    /\ calls = 0
    /\ passed = 0
    /\ installed = {Config(this)}

Init == InitWith({TargetAll})

\* ------------------------------------------------------------------ helpers
\* No goroutine has panicked: a panic ends the program, and every goroutine
\* with it.
Running == \A q \in Procs : pc[q] # "panic"
\* The goroutine p of a running program is at label.
At(p, label) == Running /\ pc[p] = label

Goto(p, label) == pc' = [pc EXCEPT ![p] = label]
Return(p) == /\ pc' = [pc EXCEPT ![p] = "idle"]
             /\ frame' = [frame EXCEPT ![p] = NoFrame]

\* The goroutine's reads of configuration fields so far, with those of fields.
Observed(p, fields) == frame[p].obs \cup {<<f, this[f]>> : f \in fields}

\* this.Lock() and this.Unlock() of the embedded sync.Mutex (line 76).  The
\* mutex does not record the goroutine that locked it: an Unlock frees it
\* whoever holds it, and the Unlock of a mutex that is not locked is a fatal
\* error, which ends the program as a panic does.
Lock(p) == mutex = Free /\ mutex' = p
Unlock(p) == mutex' = Free

\* h.Close() of an *os.File or a *syslog.Writer.
Closed(hs, h) == [hs EXCEPT ![h].open = FALSE, ![h].closes = hs[h].closes + 1]

AllIdle == \A p \in Procs : pc[p] = "idle"

\* --------------------------------------------------------------- the clock
\* The clock ticks MaxTicks times at most.
Tick ==
    /\ Running
    /\ (clock.sec - StartSec) * TicksPerSecond + clock.frac - (TicksPerSecond - 1) < MaxTicks
    /\ clock' = TickAfter(clock)
    /\ UNCHANGED <<this, mutex, pc, frame, handles, fs, stdio, syslogd, calls, passed,
                   installed>>

\* ---------------------------------------------------------------- SetLevel
\* SetLevel as a lookup in severities, the way Load parses a level.
SetLevelByLookup(t, level) == [t EXCEPT !.level = Lookup(severities, ToLower(level))]

\* Lines 207-219.
SetLevelTo(t, level) ==
    LET name == ToLower(level) IN
    CASE name = "error" -> [t EXCEPT !.level = LOG_ERR]
      [] name = "warning" -> [t EXCEPT !.level = LOG_WARNING]
      [] name = "info" -> [t EXCEPT !.level = LOG_INFO]
      [] name = "debug" -> [t EXCEPT !.level = LOG_DEBUG]
      [] OTHER -> t

\* A call of SetLevel (line 207).
CallSetLevel(p, level, max) ==
    /\ At(p, "idle")
    /\ calls < max
    /\ calls' = calls + 1
    /\ pc' = [pc EXCEPT ![p] = "set_level"]
    /\ frame' = [frame EXCEPT ![p] = [NoFrame EXCEPT !.op = "SetLevel", !.level = level]]
    /\ UNCHANGED <<this, mutex, handles, fs, stdio, syslogd, clock, passed, installed>>

\* Lines 208-219.
SetLevel(p) ==
    /\ At(p, "set_level")
    /\ this' = SetLevelTo(this, frame[p].level)
    /\ Return(p)
    /\ UNCHANGED <<mutex, handles, fs, stdio, syslogd, clock, calls, passed, installed>>

\* ------------------------------------------------------------------- Close
\* A call of Close (line 194) or of Load (line 87), which calls Close first.
CallClose(p, max) ==
    /\ At(p, "idle")
    /\ calls < max
    /\ calls' = calls + 1
    /\ pc' = [pc EXCEPT ![p] = "close_lock"]
    /\ frame' = [frame EXCEPT ![p] = [NoFrame EXCEPT !.op = "Close"]]
    /\ UNCHANGED <<this, mutex, handles, fs, stdio, syslogd, clock, passed, installed>>

CallLoad(p, target, max) ==
    /\ At(p, "idle")
    /\ calls < max
    /\ calls' = calls + 1
    /\ pc' = [pc EXCEPT ![p] = "close_lock"]
    /\ frame' = [frame EXCEPT ![p] = [NoFrame EXCEPT !.op = "Load", !.target = target]]
    /\ UNCHANGED <<this, mutex, handles, fs, stdio, syslogd, clock, passed, installed>>

\* Line 195.
CloseLock(p) ==
    /\ At(p, "close_lock")
    /\ Lock(p)
    /\ Goto(p, "close_syslog")
    /\ UNCHANGED <<this, frame, handles, fs, stdio, syslogd, clock, calls, passed,
                   installed>>

\* Lines 197-198: the connection is closed and still referenced.
CloseSyslog(p) ==
    /\ At(p, "close_syslog")
    /\ IF this.syslogHandle # Nil
       THEN /\ handles' = Closed(handles, this.syslogHandle)
            /\ Goto(p, "close_syslog_nil")
       ELSE /\ handles' = handles
            /\ Goto(p, "close_file")
    /\ UNCHANGED <<this, mutex, frame, fs, stdio, syslogd, clock, calls, passed,
                   installed>>

\* Line 199.
CloseSyslogNil(p) ==
    /\ At(p, "close_syslog_nil")
    /\ this' = [this EXCEPT !.syslogHandle = Nil]
    /\ Goto(p, "close_file")
    /\ UNCHANGED <<mutex, frame, handles, fs, stdio, syslogd, clock, calls, passed,
                   installed>>

\* Lines 201-204 without line 203: the closed handle stays referenced.
CloseFileKeepsHandle(p) ==
    /\ At(p, "close_file")
    /\ IF this.fileHandle # Nil
       THEN handles' = Closed(handles, this.fileHandle)
       ELSE handles' = handles
    /\ Goto(p, "close_unlock")
    /\ UNCHANGED <<this, mutex, frame, fs, stdio, syslogd, clock, calls, passed, installed>>

\* Lines 201-204.
CloseFile(p) ==
    /\ At(p, "close_file")
    /\ IF this.fileHandle # Nil
       THEN /\ handles' = Closed(handles, this.fileHandle)
            /\ this' = [this EXCEPT !.fileHandle = Nil]
       ELSE UNCHANGED <<handles, this>>
    /\ Goto(p, "close_unlock")
    /\ UNCHANGED <<mutex, frame, fs, stdio, syslogd, clock, calls, passed, installed>>

\* Line 196, the deferred Unlock: Close returns, to its caller or into Load.
CloseUnlock(p) ==
    /\ At(p, "close_unlock")
    /\ Unlock(p)
    /\ IF mutex = Free THEN Goto(p, "panic") /\ frame' = frame
       ELSE IF frame[p].op = "Load"
       THEN Goto(p, "load_lock") /\ frame' = frame
       ELSE Return(p)
    /\ UNCHANGED <<this, handles, fs, stdio, syslogd, clock, calls, passed, installed>>

\* -------------------------------------------------------------------- Load
\* Line 89.
LoadLock(p) ==
    /\ At(p, "load_lock")
    /\ Lock(p)
    /\ Goto(p, "load_reset")
    /\ frame' = [frame EXCEPT ![p].i = 1]
    /\ UNCHANGED <<this, handles, fs, stdio, syslogd, clock, calls, passed, installed>>

\* One of the stores of lines 92-109; after the last, line 110.
LoadReset(p) ==
    /\ At(p, "load_reset")
    /\ this' = Store(this, ResetWrites[frame[p].i])
    /\ IF frame[p].i < Len(ResetWrites)
       THEN /\ frame' = [frame EXCEPT ![p].i = frame[p].i + 1]
            /\ pc' = pc
       ELSE /\ frame' = [frame EXCEPT ![p].i = 1]
            /\ Goto(p, IF frame[p].target = <<>> THEN "load_unlock" ELSE "load_directive")
    /\ UNCHANGED <<mutex, handles, fs, stdio, syslogd, clock, calls, passed, installed>>

\* Lines 111-113, 136-137, 162-163, 177: the directive found next, which
\* enables its sink.
LoadDirective(p) ==
    /\ At(p, "load_directive")
    /\ LET target == frame[p].target[frame[p].i] IN
       /\ this' = DirectiveOn(this, target.name)
       /\ Goto(p, IF target.options = <<>> THEN "load_end" ELSE "load_option")
    /\ frame' = [frame EXCEPT ![p].j = 1]
    /\ UNCHANGED <<mutex, handles, fs, stdio, syslogd, clock, calls, passed, installed>>

\* One turn of the option loop of a directive (lines 114-132, 138-160,
\* 164-175, 178-187): one option, which assigns at most one field.
LoadOption(p) ==
    /\ At(p, "load_option")
    /\ LET target == frame[p].target[frame[p].i] IN
       /\ this' = Option(target.name, this, target.options[frame[p].j])
       /\ Goto(p, IF frame[p].j < Len(target.options) THEN "load_option" ELSE "load_end")
    /\ frame' = [frame EXCEPT ![p].j = frame[p].j + 1]
    /\ UNCHANGED <<mutex, handles, fs, stdio, syslogd, clock, calls, passed, installed>>

\* The end of a directive: the test of lines 133-135 after a file directive,
\* then the next directive of line 110.
LoadEnd(p) ==
    /\ At(p, "load_end")
    /\ this' = DirectiveEnd(this, frame[p].target[frame[p].i].name)
    /\ frame' = [frame EXCEPT ![p].i = frame[p].i + 1]
    /\ Goto(p, IF frame[p].i < Len(frame[p].target) THEN "load_directive"
                ELSE "load_unlock")
    /\ UNCHANGED <<mutex, handles, fs, stdio, syslogd, clock, calls, passed, installed>>

\* Line 90, the deferred Unlock, and the return of line 191: the
\* configuration is installed.
LoadUnlock(p) ==
    /\ At(p, "load_unlock")
    /\ Unlock(p)
    /\ IF mutex = Free
       THEN Goto(p, "panic") /\ UNCHANGED <<frame, installed>>
       ELSE Return(p) /\ installed' = installed \cup {Config(this)}
    /\ UNCHANGED <<this, handles, fs, stdio, syslogd, clock, calls, passed>>

\* --------------------------------------------------------------------- log
\* A call of Error, Warn, Info or Debug (lines 478-489).
CallLog(p, severity, xlayout, max) ==
    /\ At(p, "idle")
    /\ calls < max
    /\ calls' = calls + 1
    /\ pc' = [pc EXCEPT ![p] = "filter"]
    /\ frame' = [frame EXCEPT ![p] =
                    [NoFrame EXCEPT !.op = "log", !.severity = severity,
                                    !.xlayout = xlayout]]
    /\ UNCHANGED <<this, mutex, handles, fs, stdio, syslogd, clock, passed, installed>>

\* A logger on which no emit is less urgent than the minimum severity.
NeverTooVerbose(t, severity) == FALSE

\* The first operand of line 365: the emit is less urgent than the minimum
\* severity.
TooVerbose(t, severity) == t.level < severity

\* Line 365, this.level < severity.
LogFilter(p) ==
    /\ At(p, "filter")
    /\ IF TooVerbose(this, frame[p].severity)
       THEN Return(p)
       ELSE Goto(p, "filter_syslog") /\ frame' = frame
    /\ UNCHANGED <<this, mutex, handles, fs, stdio, syslogd, clock, calls, passed,
                   installed>>

\* The emit has read the flag field of line 365 and found it set: it passes
\* the filter; lines 368-382 give the payload's layout and operands.
FilterPasses(p, field) ==
    /\ Goto(p, "syslog")
    /\ frame' = [frame EXCEPT ![p].layout = NormalLayout(frame[p].xlayout),
                              ![p].a = NormalArgs(frame[p].xlayout),
                              ![p].obs = Observed(p, {field})]
    /\ passed' = passed + 1

\* Line 365, !this.syslog.
LogFilterSyslog(p) ==
    /\ At(p, "filter_syslog")
    /\ IF this.syslog
       THEN FilterPasses(p, "syslog")
       ELSE /\ Goto(p, "filter_file")
            /\ frame' = [frame EXCEPT ![p].obs = Observed(p, {"syslog"})]
            /\ passed' = passed
    /\ UNCHANGED <<this, mutex, handles, fs, stdio, syslogd, clock, calls, installed>>

\* Line 365, !this.file.
LogFilterFile(p) ==
    /\ At(p, "filter_file")
    /\ IF this.file
       THEN FilterPasses(p, "file")
       ELSE /\ Goto(p, "filter_console")
            /\ frame' = [frame EXCEPT ![p].obs = Observed(p, {"file"})]
            /\ passed' = passed
    /\ UNCHANGED <<this, mutex, handles, fs, stdio, syslogd, clock, calls, installed>>

\* Line 365, !this.console, and the return of line 366.
LogFilterConsole(p) ==
    /\ At(p, "filter_console")
    /\ IF this.console
       THEN FilterPasses(p, "console")
       ELSE Return(p) /\ passed' = passed
    /\ UNCHANGED <<this, mutex, handles, fs, stdio, syslogd, clock, calls, installed>>

\* Line 383.
LogSyslog(p) ==
    /\ At(p, "syslog")
    /\ frame' = [frame EXCEPT ![p].obs = Observed(p, {"syslog"})]
    /\ IF this.syslog THEN Goto(p, "syslog_handle") ELSE Goto(p, "now")
    /\ UNCHANGED <<this, mutex, handles, fs, stdio, syslogd, clock, calls, passed,
                   installed>>

\* Line 384.
LogSyslogHandle(p) ==
    /\ At(p, "syslog_handle")
    /\ IF this.syslogHandle = Nil THEN Goto(p, "dial_lock") ELSE Goto(p, "send_check")
    /\ UNCHANGED <<this, mutex, frame, handles, fs, stdio, syslogd, clock, calls,
                   passed, installed>>

\* Line 385.
LogDialLock(p) ==
    /\ At(p, "dial_lock")
    /\ Lock(p)
    /\ Goto(p, "dial")
    /\ UNCHANGED <<this, frame, handles, fs, stdio, syslogd, clock, calls, passed,
                   installed>>

\* Lines 386-394: syslog.Dial succeeds (ok) or fails.
LogDial(p, ok) ==
    /\ At(p, "dial")
    /\ IF this.syslogHandle = Nil
       THEN /\ frame' = [frame EXCEPT
                            ![p].obs = Observed(p, {"syslogRemote", "syslogFacility",
                                                    "syslogName"}),
                            ![p].err = IF ok THEN "Dial: nil" ELSE "Dial: error"]
            /\ IF ok
               THEN /\ handles' = Append(handles,
                                      [kind |-> "syslog", name |-> <<this.syslogRemote>>,
                                       open |-> TRUE, closes |-> 0])
                    /\ this' = [this EXCEPT !.syslogHandle = Len(handles) + 1]
               ELSE UNCHANGED <<handles, this>>
       ELSE UNCHANGED <<frame, handles, this>>
    /\ Goto(p, "dial_unlock")
    /\ UNCHANGED <<mutex, fs, stdio, syslogd, clock, calls, passed, installed>>

\* Line 395.
LogDialUnlock(p) ==
    /\ At(p, "dial_unlock")
    /\ Unlock(p)
    /\ Goto(p, IF mutex = Free THEN "panic" ELSE "send_check")
    /\ UNCHANGED <<this, frame, handles, fs, stdio, syslogd, clock, calls, passed,
                   installed>>

\* Line 397.
LogSendCheck(p) ==
    /\ At(p, "send_check")
    /\ IF this.syslogHandle # Nil THEN Goto(p, "send") ELSE Goto(p, "now")
    /\ UNCHANGED <<this, mutex, frame, handles, fs, stdio, syslogd, clock, calls,
                   passed, installed>>

\* Lines 398-406: this.syslogHandle is loaded as the receiver of Err
\* (Warning, Info, Debug) and the message is formatted; no lock is held.
LogSend(p) ==
    /\ At(p, "send")
    /\ frame' = [frame EXCEPT ![p].w = this.syslogHandle]
    /\ Goto(p, "deliver")
    /\ UNCHANGED <<this, mutex, handles, fs, stdio, syslogd, clock, calls, passed,
                   installed>>

\* Inside Err (Warning, Info, Debug) of the *syslog.Writer loaded at line
\* 400, whatever this.syslogHandle is by now.  A nil Writer panics, which
\* ends the program: every goroutine stops.  A closed one connects again
\* (ok) or fails.
LogDeliver(p, ok) ==
    /\ At(p, "deliver")
    /\ LET h == frame[p].w
           m == [handle |-> h, priority |-> frame[p].severity,
                 text |-> Sprintf(frame[p].layout, frame[p].a)]
       IN  IF h = Nil
           THEN /\ Goto(p, "panic")
                /\ UNCHANGED <<handles, syslogd>>
           ELSE /\ Goto(p, "now")
                /\ IF handles[h].open
                   THEN /\ syslogd' = Append(syslogd, m)
                        /\ handles' = handles
                   ELSE IF ok
                   THEN /\ syslogd' = Append(syslogd, m)
                        /\ handles' = [handles EXCEPT ![h].open = TRUE]
                   ELSE UNCHANGED <<handles, syslogd>>
    /\ UNCHANGED <<this, mutex, frame, fs, stdio, clock, calls, passed, installed>>

\* Line 410: time.Now(), in the local zone.
LogNow(p) ==
    /\ At(p, "now")
    /\ frame' = [frame EXCEPT ![p].now = Local(clock)]
    /\ Goto(p, "zone")
    /\ UNCHANGED <<this, mutex, handles, fs, stdio, syslogd, clock, calls, passed,
                   installed>>

\* Lines 411-415: the instant in UTC or in the local zone.
LogZone(p) ==
    /\ At(p, "zone")
    /\ frame' = [frame EXCEPT
                    ![p].now = IF this.optionUTC THEN UTC(frame[p].now)
                               ELSE Local(frame[p].now),
                    ![p].obs = Observed(p, {"optionUTC"})]
    /\ Goto(p, "file")
    /\ UNCHANGED <<this, mutex, handles, fs, stdio, syslogd, clock, calls, passed,
                   installed>>

\* Line 416.
LogFile(p) ==
    /\ At(p, "file")
    /\ frame' = [frame EXCEPT ![p].obs = Observed(p, {"file"})]
    /\ IF this.file THEN Goto(p, "check") ELSE Goto(p, "console")
    /\ UNCHANGED <<this, mutex, handles, fs, stdio, syslogd, clock, calls, passed,
                   installed>>

\* A rotation check that is never due by the time since the last one.
NeverElapsed(t, now) == FALSE

\* The first operand of line 417: a second or more from the time t, the
\* copy of lastCheck the call of Sub received, to now.
Elapsed(t, now) == SubAtLeastSecond(now, t)

\* Line 417, the operand this.lastCheck of Sub: the read of its word wall,
\* with no lock.
LogCheck(p) ==
    /\ At(p, "check")
    /\ frame' = [frame EXCEPT ![p].u = [Unix00 EXCEPT !.frac = this.lastCheck.frac]]
    /\ Goto(p, "check_ext")
    /\ UNCHANGED <<this, mutex, handles, fs, stdio, syslogd, clock, calls, passed,
                   installed>>

\* Line 417, the read of the other words of this.lastCheck, then
\* now.Sub(this.lastCheck) >= time.Second on the words read.
LogCheckExt(p) ==
    /\ At(p, "check_ext")
    /\ IF Elapsed([this.lastCheck EXCEPT !.frac = frame[p].u.frac], frame[p].now)
       THEN Goto(p, "mark") ELSE Goto(p, "check_handle")
    /\ frame' = [frame EXCEPT ![p].u = Unix00]
    /\ UNCHANGED <<this, mutex, handles, fs, stdio, syslogd, clock, calls, passed,
                   installed>>

\* Line 417, this.fileHandle == nil.
LogCheckHandle(p) ==
    /\ At(p, "check_handle")
    /\ IF this.fileHandle = Nil THEN Goto(p, "mark") ELSE Goto(p, "have")
    /\ UNCHANGED <<this, mutex, frame, handles, fs, stdio, syslogd, clock, calls,
                   passed, installed>>

\* Line 418, the store of the word wall of now, with no lock.
LogMark(p) ==
    /\ At(p, "mark")
    /\ this' = Store(this, <<"lastCheck.wall", frame[p].now>>)
    /\ Goto(p, "mark_ext")
    /\ UNCHANGED <<mutex, frame, handles, fs, stdio, syslogd, clock, calls, passed,
                   installed>>

\* Line 418, the store of the other words of now.
LogMarkExt(p) ==
    /\ At(p, "mark_ext")
    /\ this' = Store(this, <<"lastCheck.ext", frame[p].now>>)
    /\ Goto(p, "rotate_lock")
    /\ UNCHANGED <<mutex, frame, handles, fs, stdio, syslogd, clock, calls, passed,
                   installed>>

\* Line 419.
LogRotateLock(p) ==
    /\ At(p, "rotate_lock")
    /\ Lock(p)
    /\ Goto(p, "rotate")
    /\ UNCHANGED <<this, frame, handles, fs, stdio, syslogd, clock, calls, passed,
                   installed>>

\* Lines 420-427: the path of the instant; a new path closes the handle.
LogRotate(p) ==
    /\ At(p, "rotate")
    /\ LET path == strftime(this.filePath, frame[p].now) IN
       /\ frame' = [frame EXCEPT ![p].path = path,
                                 ![p].obs = Observed(p, {"filePath"})]
       /\ IF path # this.filePreviousPath
          THEN /\ handles' = IF this.fileHandle # Nil
                             THEN Closed(handles, this.fileHandle) ELSE handles
               /\ this' = [this EXCEPT !.fileHandle = Nil, !.filePreviousPath = path]
          ELSE UNCHANGED <<handles, this>>
    /\ Goto(p, "open")
    /\ UNCHANGED <<mutex, fs, stdio, syslogd, clock, calls, passed, installed>>

\* Lines 428-433: os.OpenFile succeeds (ok) or fails; it fails on the empty
\* path.
LogOpen(p, ok) ==
    /\ At(p, "open")
    /\ IF this.fileHandle = Nil
       THEN /\ frame' = [frame EXCEPT
                            ![p].err = IF ok /\ frame[p].path # <<>>
                                       THEN "OpenFile: nil" ELSE "OpenFile: error"]
            /\ IF ok /\ frame[p].path # <<>>
               THEN /\ handles' = Append(handles,
                                      [kind |-> "file", name |-> frame[p].path,
                                       open |-> TRUE, closes |-> 0])
                    /\ this' = [this EXCEPT !.fileHandle = Len(handles) + 1]
               ELSE UNCHANGED <<handles, this>>
       ELSE UNCHANGED <<frame, handles, this>>
    /\ Goto(p, "rotate_unlock")
    /\ UNCHANGED <<mutex, fs, stdio, syslogd, clock, calls, passed, installed>>

\* Line 434.
LogRotateUnlock(p) ==
    /\ At(p, "rotate_unlock")
    /\ Unlock(p)
    /\ Goto(p, IF mutex = Free THEN "panic" ELSE "have")
    /\ UNCHANGED <<this, frame, handles, fs, stdio, syslogd, clock, calls, passed,
                   installed>>

\* Line 436.
LogHave(p) ==
    /\ At(p, "have")
    /\ IF this.fileHandle # Nil THEN Goto(p, "file_time") ELSE Goto(p, "console")
    /\ UNCHANGED <<this, mutex, frame, handles, fs, stdio, syslogd, clock, calls,
                   passed, installed>>

\* Lines 437-443: the time part of the file line's prefix.
LogFileTime(p) ==
    /\ At(p, "file_time")
    /\ frame' = [frame EXCEPT ![p].prefix = TimePrefix(this.fileTime, frame[p].now),
                              ![p].obs = Observed(p, {"fileTime"})]
    /\ Goto(p, "file_severity")
    /\ UNCHANGED <<this, mutex, handles, fs, stdio, syslogd, clock, calls, passed,
                   installed>>

\* Lines 444-446: the label of the file line's prefix.
LogFileSeverity(p) ==
    /\ At(p, "file_severity")
    /\ frame' = [frame EXCEPT
                    ![p].prefix = IF this.fileSeverity
                                  THEN frame[p].prefix
                                           \o Lookup(severityLabels, frame[p].severity)
                                  ELSE frame[p].prefix,
                    ![p].obs = Observed(p, {"fileSeverity"})]
    /\ Goto(p, "write_lock")
    /\ UNCHANGED <<this, mutex, handles, fs, stdio, syslogd, clock, calls, passed,
                   installed>>

\* Line 447.
LogWriteLock(p) ==
    /\ At(p, "write_lock")
    /\ Lock(p)
    /\ Goto(p, "write")
    /\ UNCHANGED <<this, frame, handles, fs, stdio, syslogd, clock, calls, passed,
                   installed>>

\* Line 448: WriteString on a nil or a closed *os.File writes nothing and
\* returns an error, which is dropped.
LogWrite(p) ==
    /\ At(p, "write")
    /\ LET h == this.fileHandle IN
       IF h # Nil /\ handles[h].open
       THEN fs' = Append(fs, [path |-> handles[h].name,
                              line |-> Sprintf(frame[p].prefix \o frame[p].layout
                                                   \o <<"\n">>, frame[p].a)])
       ELSE fs' = fs
    /\ Goto(p, "write_unlock")
    /\ UNCHANGED <<this, mutex, frame, handles, stdio, syslogd, clock, calls, passed,
                   installed>>

\* Line 449.
LogWriteUnlock(p) ==
    /\ At(p, "write_unlock")
    /\ Unlock(p)
    /\ Goto(p, IF mutex = Free THEN "panic" ELSE "console")
    /\ UNCHANGED <<this, frame, handles, fs, stdio, syslogd, clock, calls, passed,
                   installed>>

\* Line 452, and the return of line 476 when the console sink is off.
LogConsole(p) ==
    /\ At(p, "console")
    /\ IF this.console
       THEN /\ frame' = [frame EXCEPT ![p].obs = Observed(p, {"console"})]
            /\ Goto(p, "console_time")
       ELSE Return(p)
    /\ UNCHANGED <<this, mutex, handles, fs, stdio, syslogd, clock, calls, passed,
                   installed>>

\* Lines 453-459: the time part of the console line's prefix.
LogConsoleTime(p) ==
    /\ At(p, "console_time")
    /\ frame' = [frame EXCEPT ![p].prefix = TimePrefix(this.consoleTime, frame[p].now),
                              ![p].obs = Observed(p, {"consoleTime"})]
    /\ Goto(p, "console_severity")
    /\ UNCHANGED <<this, mutex, handles, fs, stdio, syslogd, clock, calls, passed,
                   installed>>

\* Line 460.
LogConsoleSeverity(p) ==
    /\ At(p, "console_severity")
    /\ frame' = [frame EXCEPT ![p].obs = Observed(p, {"consoleSeverity"})]
    /\ IF this.consoleSeverity THEN Goto(p, "console_colors") ELSE Goto(p, "console_map")
    /\ UNCHANGED <<this, mutex, handles, fs, stdio, syslogd, clock, calls, passed,
                   installed>>

\* Lines 461-465: the label of the console line's prefix.
LogConsoleColors(p) ==
    /\ At(p, "console_colors")
    /\ frame' = [frame EXCEPT
                    ![p].prefix = frame[p].prefix \o ConsoleLabel(this, frame[p].severity),
                    ![p].obs = Observed(p, {"consoleColors"})]
    /\ Goto(p, "console_map")
    /\ UNCHANGED <<this, mutex, handles, fs, stdio, syslogd, clock, calls, passed,
                   installed>>

\* Lines 467-471: the operands of the console line; consoleColors is read
\* for a map only.
LogConsoleMap(p) ==
    /\ At(p, "console_map")
    /\ frame' = [frame EXCEPT
                    ![p].a = ConsoleArgs(this, frame[p].xlayout, frame[p].a),
                    ![p].obs = IF frame[p].xlayout.kind = "map"
                               THEN Observed(p, {"consoleColors"}) ELSE frame[p].obs]
    /\ Goto(p, "print_lock")
    /\ UNCHANGED <<this, mutex, handles, fs, stdio, syslogd, clock, calls, passed,
                   installed>>

\* Line 472.
LogPrintLock(p) ==
    /\ At(p, "print_lock")
    /\ Lock(p)
    /\ Goto(p, "print")
    /\ UNCHANGED <<this, frame, handles, fs, stdio, syslogd, clock, calls, passed,
                   installed>>

\* Line 473.
LogPrint(p) ==
    /\ At(p, "print")
    /\ stdio' = Append(stdio, [stream |-> this.consoleHandle,
                               line |-> Sprintf(frame[p].prefix \o frame[p].layout
                                                    \o <<"\n">>, frame[p].a)])
    /\ frame' = [frame EXCEPT ![p].obs = Observed(p, {"consoleHandle"})]
    /\ Goto(p, "print_unlock")
    /\ UNCHANGED <<this, mutex, handles, fs, syslogd, clock, calls, passed, installed>>

\* Line 474, and the return of line 476.
LogPrintUnlock(p) ==
    /\ At(p, "print_unlock")
    /\ Unlock(p)
    /\ IF mutex = Free THEN Goto(p, "panic") /\ frame' = frame ELSE Return(p)
    /\ UNCHANGED <<this, handles, fs, stdio, syslogd, clock, calls, passed, installed>>

\* ---------------------------------------------------------- specifications
\* One step of a Close in progress.
CloseStep(p) ==
    \/ CloseLock(p) \/ CloseSyslog(p) \/ CloseSyslogNil(p) \/ CloseFile(p)
    \/ CloseUnlock(p)

\* One step of a Load in progress, after its Close.
LoadStep(p) ==
    \/ LoadLock(p) \/ LoadReset(p) \/ LoadDirective(p) \/ LoadOption(p) \/ LoadEnd(p)
    \/ LoadUnlock(p)

\* One step of an emit in progress; outcomes are the results an open or a
\* dial may have (TRUE: it succeeds).
LogStep(p, outcomes) ==
    \/ LogFilter(p) \/ LogFilterSyslog(p) \/ LogFilterFile(p) \/ LogFilterConsole(p)
    \/ LogSyslog(p) \/ LogSyslogHandle(p) \/ LogDialLock(p)
    \/ (\E ok \in outcomes : LogDial(p, ok))
    \/ LogDialUnlock(p) \/ LogSendCheck(p)
    \/ LogSend(p)
    \/ (\E ok \in outcomes : LogDeliver(p, ok))
    \/ LogNow(p) \/ LogZone(p) \/ LogFile(p) \/ LogCheck(p) \/ LogCheckExt(p)
    \/ LogCheckHandle(p) \/ LogMark(p) \/ LogMarkExt(p)
    \/ LogRotateLock(p) \/ LogRotate(p)
    \/ (\E ok \in outcomes : LogOpen(p, ok))
    \/ LogRotateUnlock(p) \/ LogHave(p) \/ LogFileTime(p) \/ LogFileSeverity(p)
    \/ LogWriteLock(p) \/ LogWrite(p) \/ LogWriteUnlock(p)
    \/ LogConsole(p) \/ LogConsoleTime(p) \/ LogConsoleSeverity(p) \/ LogConsoleColors(p)
    \/ LogConsoleMap(p) \/ LogPrintLock(p) \/ LogPrint(p) \/ LogPrintUnlock(p)

\* A new call by an idle goroutine, its arguments drawn from the given sets.
Call(p, sevs, payloads, targets, levels, max) ==
    \/ \E severity \in sevs, xlayout \in payloads : CallLog(p, severity, xlayout, max)
    \/ \E target \in targets : CallLoad(p, target, max)
    \/ CallClose(p, max)
    \/ \E level \in levels : CallSetLevel(p, level, max)

\* Any number of goroutines call the logger at once; opens and dials may fail.
Next ==
    \/ Tick
    \/ \E p \in Procs :
          Call(p, {LOG_ERR, LOG_DEBUG}, {PayloadString}, LoadTargets, LevelNames, MaxCalls)
    \/ \E p \in Procs : SetLevel(p) \/ CloseStep(p) \/ LoadStep(p) \/ LogStep(p, BOOLEAN)

Spec == Init /\ [][Next]_vars

\* One step of the call goroutine p is making.
Step(p) == SetLevel(p) \/ CloseStep(p) \/ LoadStep(p) \/ LogStep(p, BOOLEAN)

\* The scheduler lets every goroutine that can take a step take it in the
\* end, and every open, dial and write returns.
SpecFair == Spec /\ \A p \in Procs : WF_vars(Step(p))

\* A call of Lock, Unlock or TryLock on the logger: ULog embeds its
\* sync.Mutex (line 76), whose methods are methods of the logger any caller
\* may call.  Each returns at once.
MutexLock(p, max) ==
    /\ At(p, "idle")
    /\ calls < max
    /\ calls' = calls + 1
    /\ Lock(p)
    /\ UNCHANGED <<this, pc, frame, handles, fs, stdio, syslogd, clock, passed, installed>>

MutexUnlock(p, max) ==
    /\ At(p, "idle")
    /\ calls < max
    /\ calls' = calls + 1
    /\ Unlock(p)
    /\ pc' = IF mutex = Free THEN [pc EXCEPT ![p] = "panic"] ELSE pc
    /\ UNCHANGED <<this, frame, handles, fs, stdio, syslogd, clock, passed, installed>>

MutexTryLock(p, max) ==
    /\ At(p, "idle")
    /\ calls < max
    /\ calls' = calls + 1
    /\ mutex' = IF mutex = Free THEN p ELSE mutex
    /\ UNCHANGED <<this, pc, frame, handles, fs, stdio, syslogd, clock, passed, installed>>

\* The calls of Spec, and goroutines that call the methods of the mutex.
NextMutex ==
    \/ Next
    \/ \E p \in Procs :
          MutexLock(p, MaxCalls) \/ MutexUnlock(p, MaxCalls) \/ MutexTryLock(p, MaxCalls)

SpecMutex == Init /\ [][NextMutex]_vars

\* One goroutine calls the logger, one call after the other.
NextSeq ==
    \/ Tick
    \/ Call(1, EmitSeverities, {PayloadString}, LoadTargets, LevelNames, MaxSeqCalls)
    \/ SetLevel(1) \/ CloseStep(1) \/ LoadStep(1) \/ LogStep(1, BOOLEAN)

SpecSeq == Init /\ [][NextSeq]_vars

\* Goroutines emit at once, on a logger nobody reloads or closes; every open
\* and every dial succeeds.
NextEmit ==
    \/ Tick
    \/ \E p \in Procs, severity \in {LOG_ERR, LOG_DEBUG} :
          CallLog(p, severity, PayloadString, MaxCalls)
    \/ \E p \in Procs : LogStep(p, {TRUE})

\* The loggers the goroutines emit on have every sink, the file only or the
\* console only.
SpecEmit == InitWith({TargetAll, TargetFile, TargetConsole}) /\ [][NextEmit]_vars

\* One goroutine emits and reloads, with descriptors of every shape; every
\* open and every dial succeeds.
NextLoad ==
    \/ Tick
    \/ \E severity \in EmitSeverities, xlayout \in Payloads :
          CallLog(1, severity, xlayout, MaxLoadCalls)
    \/ \E target \in ParseTargets : CallLoad(1, target, MaxLoadCalls)
    \/ CloseStep(1) \/ LoadStep(1) \/ LogStep(1, {TRUE})

SpecLoad == InitWith(ParseTargets) /\ [][NextLoad]_vars

\* ------------------------------------------------------------------ claims
InLog(p) == frame[p].op = "log"
NoSink == ~this.syslog /\ ~this.file /\ ~this.console

\* The steps of line 365.
FilterSteps == {"filter", "filter_syslog", "filter_file", "filter_console"}

\* C1: an emit whose severity is less urgent than the minimum severity
\* returns at line 366 from its test of the level; an emit on a logger with
\* no sink enabled does not pass line 365 and returns from its test of the
\* last sink; and no step of line 365 takes the lock, opens, closes or
\* rotates a handle, writes to a sink or changes the logger.
C1_FilteredEmitReturnsAtOnce ==
    [][\A p \in Procs :
          (pc[p] \in FilterSteps /\ pc'[p] # pc[p]) =>
             /\ (pc[p] = "filter" /\ frame[p].severity > this.level) => pc'[p] = "idle"
             /\ NoSink => pc'[p] \in FilterSteps \cup {"idle"}
             /\ (pc[p] = "filter_console" /\ NoSink) => pc'[p] = "idle"
             /\ this' = this
             /\ mutex' = mutex
             /\ handles' = handles
             /\ fs' = fs /\ stdio' = stdio /\ syslogd' = syslogd]_vars

\* An emit severe enough for the minimum severity tests the last sink of
\* line 365 on a logger with no sink enabled.
C1_Witness ==
    \E p \in Procs :
        pc[p] = "filter_console" /\ NoSink /\ frame[p].severity <= this.level

\* C2: with the file sink enabled, every open succeeding and no reload or
\* shutdown, once every call has returned the file sink holds one
\* newline-terminated line for each emit that passed the severity filter.
C2_EveryPassingEmitWritesALine ==
    (AllIdle /\ this.file) =>
        /\ Len(fs) = passed
        /\ \A i \in 1..Len(fs) : fs[i].line[Len(fs[i].line)] = "\n"

\* The steps the claim names: a file write, a console write, a close or an
\* open of the file handle, the syslog dial of lines 386-394, and the closes
\* of Close.  The claim's other dial, the one a closed Writer makes inside
\* Err (lines 400-406), is part of the step "deliver".
LockedSteps ==
    {"write", "print", "rotate", "open", "dial", "close_syslog", "close_syslog_nil",
     "close_file"}
\* Waiting for the lock.
LockSteps == {"dial_lock", "rotate_lock", "write_lock", "print_lock", "close_lock", "load_lock"}

\* C3: a caller inside a file write, a console write, a close or open of
\* the file handle or a syslog dial holds the lock, so at most one caller is
\* inside such a step; the logger opens a handle only in a step that found
\* the handle unset under the lock; and every step that connects to syslog,
\* for the first time or again on a Writer that was closed, is the step of a
\* caller that holds the lock, so no dial overlaps a step made under the
\* lock.
C3_LockedStepsAreExclusive ==
    [][/\ \A p \in Procs : pc'[p] \in LockedSteps => mutex' = p
       /\ Cardinality({p \in Procs : pc'[p] \in LockedSteps}) <= 1
       /\ Len(handles') > Len(handles) =>
             \E p \in Procs :
                /\ mutex = p
                /\ \/ pc[p] = "open" /\ this.fileHandle = Nil
                   \/ pc[p] = "dial" /\ this.syslogHandle = Nil
       /\ \A p \in Procs :
             (pc[p] = "deliver" /\ pc'[p] # pc[p] /\ handles' # handles) => mutex = p]_vars

\* The steps of an emit between its test of line 417 and its file write.
FileSteps ==
    {"check", "check_ext", "check_handle", "mark", "mark_ext", "rotate_lock", "rotate",
     "open", "rotate_unlock", "have", "file_time", "file_severity", "write_lock", "write",
     "write_unlock"}
FileHandles == {h \in DOMAIN handles : handles[h].kind = "file"}
HandleIsOpen(h) == h # Nil /\ handles[h].open

\* C4, as claimed: in a sequential run, every line of the file sink is
\* written through a handle opened on the path that the emit's own instant
\* resolves to.
C4_LineGoesToThePathOfItsInstant ==
    \A p \in Procs :
        pc[p] = "write" =>
            /\ HandleIsOpen(this.fileHandle)
            /\ handles[this.fileHandle].name = strftime(this.filePath, frame[p].now)

\* The state in which an emit of a sequential run writes its line: the one
\* open file handle is on the recorded path, which is the path resolved at
\* the last check, and that check is less than a second before the emit's
\* instant (it is the emit's instant when a second or more had passed).
WritesToLastResolvedPath(p) ==
    /\ HandleIsOpen(this.fileHandle)
    /\ handles[this.fileHandle].name = this.filePreviousPath
    /\ this.filePreviousPath = strftime(this.filePath, this.lastCheck)
    /\ ~SubAtLeastSecond(frame[p].now, this.lastCheck)
    /\ \A h \in FileHandles : h # this.fileHandle => ~handles[h].open /\ handles[h].closes = 1

\* C4, amended: in a sequential run, while an emit whose instant resolves to
\* the path of the open handle handles the file sink, no handle is closed or
\* opened; and an emit writes its line through the one open handle, on the
\* path resolved at the last rotation check, the handle of the path before
\* being closed.  The last check is the emit's own instant when at least a
\* second had passed since the check before it; an emit less than a second
\* after the last check writes to the path resolved then.
C4_ReuseAndRotateAtTheCheck ==
    [][\A p \in Procs :
          /\ pc'[p] = "write" => WritesToLastResolvedPath(p)'
          /\ (/\ pc[p] \in FileSteps
              /\ HandleIsOpen(this.fileHandle)
              /\ handles[this.fileHandle].name = strftime(this.filePath, frame[p].now))
             => handles' = handles /\ this'.fileHandle = this.fileHandle]_vars

\* An emit is about to write to the file of the new day, the handle of the
\* day before closed.
C4_Witness ==
    \E p \in Procs :
        /\ pc[p] = "write"
        /\ this.lastCheck = frame[p].now
        /\ \E h \in FileHandles :
              /\ ~handles[h].open
              /\ handles[h].name = <<"x", "2", "0", "2", "4", "0", "3", "0", "5">>
              /\ handles[this.fileHandle].name = <<"x", "2", "0", "2", "4", "0", "3", "0", "6">>

\* Load installing the configuration, lines 92-191.
InstallSteps == {"load_reset", "load_directive", "load_option", "load_end", "load_unlock"}

\* C5: when Load installs the new configuration (lines 92-190) and when it
\* returns, no handle opened under the previous configuration is open or
\* referenced by the logger.
C5_LoadLeavesNoOldHandle ==
    \A p \in Procs :
        pc[p] \in InstallSteps =>
            /\ this.fileHandle = Nil
            /\ this.syslogHandle = Nil
            /\ \A h \in DOMAIN handles : ~handles[h].open

\* The reads of obs all agree with the configuration c.
ReadFrom(obs, c) == \A o \in obs : c[o[1]] = o[2]

\* The configurations installed so far, with the one a Load about to return
\* has written.
Installed ==
    installed \cup {Config(this) : q \in {r \in Procs : pc[r] = "load_unlock"}}

\* C6: the configuration fields an emit has read all come from one
\* configuration, the one before a reload or the one after it.
C6_EmitReadsOneConfiguration ==
    \A p \in Procs : InLog(p) => \E c \in Installed : ReadFrom(frame[p].obs, c)

\* C7: when an emit loads the syslog connection to deliver through (line
\* 400) and while it delivers, the connection is set and open and is the one
\* the logger references; when it is about to write through the file handle
\* (line 448), the handle is set and open.
C7_HandleSetAndOpenWhenUsed ==
    \A p \in Procs :
        /\ pc[p] = "send" => HandleIsOpen(this.syslogHandle)
        /\ pc[p] = "deliver" =>
              HandleIsOpen(frame[p].w) /\ this.syslogHandle = frame[p].w
        /\ pc[p] = "write" => HandleIsOpen(this.fileHandle)

\* C8: in a sequential run no handle is closed twice, and when Close
\* returns (to its caller or into Load) both handles are unset and every
\* handle ever opened is closed, once.
C8_CloseClosesOnce ==
    /\ \A h \in DOMAIN handles : handles[h].closes <= 1
    /\ \A p \in Procs :
          pc[p] \in {"close_unlock", "load_lock"} \cup InstallSteps =>
              /\ this.fileHandle = Nil
              /\ this.syslogHandle = Nil
              /\ \A h \in DOMAIN handles : ~handles[h].open /\ handles[h].closes = 1

\* A Load with a descriptor that disables the file sink is returning, the
\* file handle that was open closed.
C8_Witness ==
    \E p \in Procs :
        /\ pc[p] = "load_unlock"
        /\ frame[p].target = TargetConsole
        /\ ~this.file
        /\ \E h \in FileHandles : handles[h].closes = 1

\* C9: SetLevel with one of the names error, warning, info, debug, in any
\* case, sets the minimum severity to that level; with any other name it
\* leaves it as it was; it changes no other field of the logger, no handle
\* and not the lock.
C9_SetLevelChangesOnlyTheLevel ==
    [][\A p \in Procs :
          (pc[p] = "set_level" /\ pc'[p] = "idle") =>
              LET name == ToLower(frame[p].level) IN
              /\ this' = [this EXCEPT !.level =
                             IF name \in {"error", "warning", "info", "debug"}
                             THEN severities[name] ELSE this.level]
              /\ mutex' = mutex
              /\ handles' = handles]_vars

\* SetLevel is called with an unrecognized name on a logger whose minimum
\* severity an earlier call has moved.
C9_Witness ==
    \E p \in Procs :
        pc[p] = "set_level" /\ frame[p].level = "bogus" /\ this.level = LOG_WARNING

\* C10: an open or a dial that fails leaves the handle unset and the emit
\* goes on, never ending the program; an emit passes over a sink only when
\* its own dial or open has just failed, so the next emit attempts again;
\* and an emit that reaches the delivery to syslog or the write to the file
\* delivers its message or its line.
C10_FailureIdlesTheSinkForOneCall ==
    [][\A p \in Procs :
          /\ pc'[p] # "panic"
          /\ (pc[p] = "dial" /\ frame'[p].err = "Dial: error") =>
                 this'.syslogHandle = Nil /\ pc'[p] = "dial_unlock"
          /\ (pc[p] = "open" /\ frame'[p].err = "OpenFile: error") =>
                 this'.fileHandle = Nil /\ pc'[p] = "rotate_unlock"
          /\ (pc[p] = "send_check" /\ pc'[p] = "now") => frame[p].err = "Dial: error"
          /\ (pc[p] = "have" /\ pc'[p] = "console") => frame[p].err = "OpenFile: error"
          /\ (pc[p] = "deliver" /\ pc'[p] = "now") => Len(syslogd') = Len(syslogd) + 1
          /\ (pc[p] = "write" /\ pc'[p] = "write_unlock") => Len(fs') = Len(fs) + 1]_vars

\* The text s holds an escape character.
HasEscape(s) == \E i \in 1..Len(s) : s[i] = "ESC"

\* C11: the line an emit prints on a console whose colors are disabled
\* holds no escape sequence, whatever the severity and whether the payload
\* is a template or a map: the severity label is written as it is and the
\* keys of the map are not highlighted.
C11_NoEscapeWithoutColors ==
    [][\A p \in Procs :
          (pc[p] = "print" /\ pc'[p] = "print_unlock" /\ ~this.consoleColors) =>
              /\ Len(stdio') = Len(stdio) + 1
              /\ ~HasEscape(stdio'[Len(stdio')].line)
              /\ stdio'[Len(stdio')].line =
                    TimePrefix(this.consoleTime, frame[p].now)
                        \o (IF this.consoleSeverity
                            THEN severityLabels[frame[p].severity] ELSE <<>>)
                        \o TrimSpace(frame[p].xlayout.layout)
                        \o <<"\n">>]_vars

\* A map has been printed with its severity label on a console without colors.
C11_Witness ==
    \E p \in Procs :
        /\ pc[p] = "print_unlock"
        /\ ~this.consoleColors /\ this.consoleSeverity
        /\ frame[p].xlayout.kind = "map"
        /\ stdio # <<>>

\* The verb characters strftime has a case for, the percent sign apart.
KnownVerbs ==
    {"a", "A", "b", "B", "c", "C", "d", "D", "e", "f", "F", "g", "G", "h", "H", "I",
     "j", "k", "l", "m", "M", "n", "p", "P", "r", "R", "s", "S", "t", "T", "u", "U",
     "V", "w", "W", "x", "X", "y", "Y", "z", "Z"}

\* The left-to-right scan of a template from position i on: two percent
\* signs give one, a percent sign and a character that is no verb give
\* nothing, a verb gives its expansion, and any other character is copied.
RECURSIVE Scan(_, _, _)
Scan(layout, base, i) ==
    IF i > Len(layout) THEN <<>>
    ELSE IF layout[i] = "%" /\ i < Len(layout)
    THEN (IF layout[i + 1] = "%" THEN <<"%">>
          ELSE IF layout[i + 1] \in KnownVerbs THEN Verb(layout[i + 1], base)
          ELSE <<>>) \o Scan(layout, base, i + 2)
    ELSE <<layout[i]>> \o Scan(layout, base, i + 1)

\* C12: the path the formatter resolves from the file sink's template is the
\* left-to-right scan of the template: a doubled percent sign yields one
\* percent sign, a percent sign with an unrecognized verb yields nothing, and
\* every other character is copied in order.
C12_FormatterCopiesEveryOtherCharacter ==
    \A p \in Procs :
        pc[p] = "open" => frame[p].path = Scan(this.filePath, frame[p].now, 1)

\* C13: on a logger whose level an unrecognized name has left at the zero
\* value, with a sink enabled, an error event passes the severity filter of
\* line 365 and warning, info and debug events are suppressed.
C13_ZeroLevelPassesErrors ==
    [][\A p \in Procs :
          (/\ pc[p] = "filter" /\ pc'[p] # "filter"
           /\ this.level = PriorityZero /\ ~NoSink)
          => (pc'[p] = "idle" <=> frame[p].severity # LOG_ERR)]_vars

\* The option i of directive d of a descriptor is the last occurrence of its
\* key: no later option of the directive, and no option of a later directive
\* of the same kind, has the key.
IsLastOccurrence(target, d, i) ==
    LET key == ToLower(target[d].options[i][1]) IN
    /\ \A j \in (i + 1)..Len(target[d].options) : ToLower(target[d].options[j][1]) # key
    /\ \A e \in (d + 1)..Len(target) :
          target[e].name = target[d].name =>
              \A j \in 1..Len(target[e].options) : ToLower(target[e].options[j][1]) # key

\* The options of directive d that are last occurrences, from option i on.
RECURSIVE LastOptions(_, _, _)
LastOptions(target, d, i) ==
    IF i > Len(target[d].options) THEN <<>>
    ELSE (IF IsLastOccurrence(target, d, i) THEN <<target[d].options[i]>> ELSE <<>>)
             \o LastOptions(target, d, i + 1)

\* The descriptor with every key given once, by its last occurrence.
LastOnly(target) ==
    [d \in 1..Len(target) |->
        [name |-> target[d].name, options |-> LastOptions(target, d, 1)]]

\* C14: the configuration Load leaves is the one the descriptor gives when
\* every key is read from its last occurrence only, within a directive and
\* across the directives of one kind.
C14_LastOccurrenceWins ==
    \A p \in Procs :
        pc[p] = "load_unlock" =>
            LET last == LoadFields(this, LastOnly(frame[p].target)) IN
            /\ Config(this) = Config(last)
            /\ this.level = last.level

\* A file directive of the descriptor has a path option.
GivesPath(target) ==
    \E d \in 1..Len(target) :
        /\ target[d].name = "file"
        /\ \E i \in 1..Len(target[d].options) : ToLower(target[d].options[i][1]) = "path"

\* C15: outside the assignments of a Load in progress, the file sink is
\* enabled only with a path template that is not empty; and when Load has
\* parsed a descriptor whose file directives give
\* no path, the file sink is disabled and no path is left from the
\* configuration before.
C15_FileSinkNeedsAPath ==
    /\ (\A p \in Procs : pc[p] \notin InstallSteps \ {"load_unlock"}) =>
          (this.file => this.filePath # <<>>)
    /\ \A p \in Procs :
          (pc[p] = "load_unlock" /\ ~GivesPath(frame[p].target)) =>
              ~this.file /\ this.filePath = <<>>

\* Load has parsed a descriptor with a file directive that names no path, on
\* a logger whose file sink was enabled and had opened its file.
C15_Witness ==
    \E p \in Procs :
        /\ pc[p] = "load_unlock"
        /\ frame[p].target = TargetNoPath
        /\ \E h \in FileHandles : handles[h].name # <<>>

\* The steps that test or update the file handle, the resolved path, the
\* time of the last check or the syslog connection: lines 384, 386-394, 397,
\* 398-407, 417, 418, 420-427, 428-433, 436, 448 of an emit, lines 196-204 of
\* Close and lines 92-109 of Load.
SharedFieldSteps ==
    {"syslog_handle", "dial", "send_check", "send", "check", "check_ext",
     "check_handle", "mark", "mark_ext", "rotate", "open", "have", "write",
     "close_syslog", "close_syslog_nil", "close_file", "load_reset"}

\* C16: a caller about to test or update the file handle, the resolved path,
\* the time of the last check or the syslog connection holds the lock.
C16_SharedFieldsUnderTheLock ==
    \A p \in Procs : pc[p] \in SharedFieldSteps => mutex = p

\* Inside the rotation check of lines 418-434, the path being resolved again.
RotationSteps == {"mark", "mark_ext", "rotate_lock", "rotate", "open", "rotate_unlock"}

\* C17: an emit enters the rotation check with an instant at least one
\* second after the instant of the entry before it, which lastCheck records;
\* and two emits inside the rotation check have instants at least one second
\* apart.
C17_OneResolutionPerSecond ==
    /\ \A p \in Procs :
          pc[p] = "mark" => SubAtLeastSecond(frame[p].now, this.lastCheck)
    /\ \A p, q \in Procs :
          (p # q /\ pc[p] \in RotationSteps /\ pc[q] \in RotationSteps) =>
              \/ SubAtLeastSecond(frame[p].now, frame[q].now)
              \/ SubAtLeastSecond(frame[q].now, frame[p].now)

\* C18: whenever the lock is free and the logger holds an open file handle,
\* the handle was opened on the path recorded in filePreviousPath and the
\* file sink is enabled.
C18_OpenHandleIsOnTheRecordedPath ==
    (mutex = Free /\ HandleIsOpen(this.fileHandle)) =>
        /\ handles[this.fileHandle].name = this.filePreviousPath
        /\ this.file

\* The clock after k ticks, and the instant an emit takes from it.
RECURSIVE ClockAt(_)
ClockAt(k) == IF k = 0 THEN StartClock ELSE TickAfter(ClockAt(k - 1))
NowAt(k) == IF this.optionUTC THEN UTC(ClockAt(k)) ELSE Local(ClockAt(k))

\* The path a is resolved from an earlier instant of the run than the path b.
ResolvedEarlier(a, b) ==
    /\ a # b
    /\ \E k1, k2 \in 0..MaxTicks :
          /\ k1 < k2
          /\ a = strftime(this.filePath, NowAt(k1))
          /\ b = strftime(this.filePath, NowAt(k2))

\* C19: the files the sink opens follow the clock: no file is opened on the
\* path of an earlier instant after a file has been opened on the path of a
\* later instant.
C19_RotationNeverGoesBack ==
    \A i, j \in FileHandles :
        i < j => ~ResolvedEarlier(handles[j].name, handles[i].name)

\* C20: a caller waiting for the lock does not hold it, and every call that
\* has started returns in the end, the lock not held by its caller.
C20_EveryCallReturnsLockFree ==
    /\ [](\A p \in Procs : pc[p] \in LockSteps => mutex # p)
    /\ \A p \in Procs : (pc[p] # "idle") ~> (pc[p] = "idle" /\ mutex # p)

====
